---- MODULE Spec2Model ----
(***************************************************************************)
(* Poster editor (src/App.tsx) and its drag controller PosterCanvas         *)
(* (src/unnamed/part_000).                                                  *)
(*                                                                         *)
(* State is the React state of the two components, the two element refs,   *)
(* the closure captured by the window pointerup listener, and the          *)
(* asynchronous operations in flight (export timers, toPng promises,       *)
(* enhancePosterContent promises).  Every handler runs to completion and   *)
(* React commits its state updates (and re-runs the effect whose           *)
(* dependency changed) before the next event is delivered, so a handler    *)
(* reads the state left by the previous one; the values an asynchronous    *)
(* continuation captured when it was started are kept with it.             *)
(*                                                                         *)
(* Coordinates are JavaScript numbers: IEEE-754 binary64, computed here    *)
(* bit for bit (round to nearest, ties to even) on a 53-bit significand    *)
(* held in two limbs.                                                      *)
(***************************************************************************)
EXTENDS Integers, Sequences, FiniteSets, TLC

VARIABLES
    data,          \* App: useState<PosterState>(INITIAL_STATE)
    selectedId,    \* App: useState('title')
    loading,       \* App: export busy flag
    aiLoading,     \* App: enhancement busy flag
    posterRef,     \* App: ref to the 1280x720 surface handed to toPng
    isDragging,    \* PosterCanvas: active flag
    dragOffset,    \* PosterCanvas: anchor, device coordinates <<x, y>>
    draggedId,     \* PosterCanvas: dragged element
    containerRef,  \* PosterCanvas: ref to the inner container
    upListener,    \* isDragging as captured by the registered handleGlobalUp
    downloads,     \* export id -> [stage, currentSelection] of handleDownload
    aiCalls,       \* enhancePosterContent promises not yet settled
    events,        \* user input events handled so far
    ev,            \* history: the event handled last
    requests,      \* history: onUpdatePosition calls made by the last handler
    alerted,       \* history: the last handler raised alert()
    gesture,       \* history: the drag gesture started by the last pointer-down
    enhanceFrom    \* history: data as rendered when the last enhancement was requested
                   \* (before any request: as first rendered)

vars == <<data, selectedId, loading, aiLoading, posterRef, isDragging, dragOffset,
          draggedId, containerRef, upListener, downloads, aiCalls, events, ev,
          requests, alerted, gesture, enhanceFrom>>

-----------------------------------------------------------------------------
(* Bounds *)

\* user input events (pointer, click, edit) in one behaviour
MaxEvents == 3

\* device positions a pointer event may carry
Pointers == {<<100, 100>>, <<110, 115>>, <<95, 104>>}

\* bounding boxes getBoundingClientRect may return for the container
Rects == {[width |-> 1280, height |-> 720], [width |-> 640, height |-> 360],
          [width |-> 576, height |-> 324], [width |-> 640, height |-> 720]}

TextChoices == {"", "edited"}
FontChoices == {"Cairo", "Tajawal"}
SizeChoices == {16, 150}
ColorChoices == {"#000000", "#3730a3"}
ImageChoices == {"data:image/png"}
AiResults == {[formattedDate |-> d, enhancedTitle |-> t] :
                 d \in {"", "ai-date"}, t \in {"", "ai-title"}}

-----------------------------------------------------------------------------
(* JavaScript numbers *)

NULL == "null"

B26 == 2^26
B27 == 2^27
B28 == 2^28
B29 == 2^29

\* the number of bits of n, 0 <= n < 2^30
BitLen(n) == CHOOSE k \in 0..30 : n < 2^k /\ (k = 0 \/ n >= 2^(k - 1))

Abs(n) == IF n < 0 THEN 0 - n ELSE n

\* A number is [s, e, hi, lo]: sign s, value s * (hi * 2^26 + lo) * 2^e with
\* 2^26 <= hi < 2^27 and 0 <= lo < 2^26; zero is FZero.
FZero == [s |-> 1, e |-> 0, hi |-> 0, lo |-> 0]

IsZero(a) == a.hi = 0 /\ a.s # 0

\* Infinity, -Infinity and NaN, which only a zero divisor produces, are one value
NonFinite == [s |-> 0, e |-> 0, hi |-> 0, lo |-> 0]

IsNonFinite(a) == a.s = 0

FNeg(a) == [a EXCEPT !.s = 0 - a.s]

\* an integer below 2^27 in magnitude (every integer here is a pixel count)
FromInt(n) ==
    IF n = 0 THEN FZero
    ELSE [s |-> IF n < 0 THEN -1 ELSE 1, e |-> BitLen(Abs(n)) - 53,
          hi |-> Abs(n) * 2^(27 - BitLen(Abs(n))), lo |-> 0]

\* round to nearest, ties to even: the kept significand (hi, lo), the first
\* discarded bit rnd and whether any later discarded bit is set
RoundPack(s, e, hi, lo, rnd, sticky) ==
    LET up == rnd = 1 /\ (sticky = 1 \/ lo % 2 = 1)
        lo1 == IF up THEN lo + 1 ELSE lo
        hi1 == IF lo1 = B26 THEN hi + 1 ELSE hi
        lo2 == IF lo1 = B26 THEN 0 ELSE lo1
    IN  IF hi1 = B27 THEN [s |-> s, e |-> e + 1, hi |-> B26, lo |-> 0]
        ELSE [s |-> s, e |-> e, hi |-> hi1, lo |-> lo2]

GE(ahi, alo, bhi, blo) == ahi > bhi \/ (ahi = bhi /\ alo >= blo)

\* one step of long division of the remainder (rhi, rlo) by (bhi, blo): the
\* next quotient bit, bits 0..26 into qhi and 27..54 into qlo, and the
\* remainder doubled
DivStep(st, bhi, blo) ==
    LET bit == IF GE(st.rhi, st.rlo, bhi, blo) THEN 1 ELSE 0
        dlo == st.rlo - bit * blo
        lo == IF dlo < 0 THEN dlo + B26 ELSE dlo
        hi == st.rhi - bit * bhi - (IF dlo < 0 THEN 1 ELSE 0)
    IN  [i |-> st.i + 1, rhi |-> 2 * hi + (2 * lo) \div B26, rlo |-> (2 * lo) % B26,
         qhi |-> IF st.i < 27 THEN 2 * st.qhi + bit ELSE st.qhi,
         qlo |-> IF st.i < 27 THEN st.qlo ELSE 2 * st.qlo + bit]

\* up to n further steps, none past quotient bit 54; the steps are taken in
\* two halves
RECURSIVE DivRun(_, _, _, _)
DivRun(st, bhi, blo, n) ==
    IF st.i = 55 \/ n = 0 THEN st
    ELSE IF n = 1 THEN DivStep(st, bhi, blo)
    ELSE DivRun(DivRun(st, bhi, blo, n \div 2), bhi, blo, n - n \div 2)

\* a / b; a zero divisor gives Infinity or NaN
FDiv(a, b) ==
    IF IsNonFinite(a) \/ IsNonFinite(b) \/ IsZero(b) THEN NonFinite
    ELSE IF IsZero(a) THEN FZero
    ELSE LET q == DivRun([i |-> 0, rhi |-> a.hi, rlo |-> a.lo, qhi |-> 0, qlo |-> 0],
                         b.hi, b.lo, 55)
             rem == IF q.rhi = 0 /\ q.rlo = 0 THEN 0 ELSE 1
         IN  IF q.qhi >= B26
             THEN RoundPack(a.s * b.s, a.e - b.e - 52, q.qhi, q.qlo \div 4,
                            (q.qlo \div 2) % 2,
                            IF q.qlo % 2 = 1 \/ rem = 1 THEN 1 ELSE 0)
             ELSE RoundPack(a.s * b.s, a.e - b.e - 53, 2 * q.qhi + q.qlo \div B27,
                            (q.qlo \div 2) % B26, q.qlo % 2, rem)

\* the 56-bit value hi * 2^29 + lo (hi: 27 bits, lo: 29 bits) shifted right by
\* d >= 0, a set bit shifted out kept in the lowest bit
ShiftRS(hi, lo, d) ==
    LET r == IF d = 0 THEN [hi |-> hi, lo |-> lo, out |-> 0]
             ELSE IF d < 29
             THEN [hi |-> hi \div 2^d, lo |-> (lo \div 2^d) + (hi % 2^d) * 2^(29 - d),
                   out |-> lo % 2^d]
             ELSE IF d < 57
             THEN [hi |-> 0, lo |-> hi \div 2^(d - 29), out |-> (hi % 2^(d - 29)) + lo]
             ELSE [hi |-> 0, lo |-> 0, out |-> hi + lo]
    IN  [hi |-> r.hi, lo |-> IF r.out # 0 /\ r.lo % 2 = 0 THEN r.lo + 1 ELSE r.lo]

\* the non-zero 56-bit value shifted left until bit 55 is set
RECURSIVE NormL(_, _, _)
NormL(hi, lo, e) ==
    IF hi >= B26 THEN [hi |-> hi, lo |-> lo, e |-> e]
    ELSE IF hi = 0 THEN NormL(lo \div 4, (lo % 4) * B27, e - 27)
    ELSE LET k == 27 - BitLen(hi)
         IN  [hi |-> hi * 2^k + lo \div 2^(29 - k), lo |-> (lo % 2^(29 - k)) * 2^k,
              e |-> e - k]

\* the 56-bit value rounded to 53 bits: lo carries guard, round and sticky bits
Round3(s, e, hi, lo) ==
    RoundPack(s, e, hi, lo \div 8, (lo \div 4) % 2, IF lo % 4 # 0 THEN 1 ELSE 0)

\* a + b for |a| >= |b|, both non-zero
AddOrdered(a, b) ==
    LET sb == ShiftRS(b.hi, b.lo * 8, a.e - b.e)
        alo == a.lo * 8
    IN  IF a.s = b.s
        THEN LET lo == (alo + sb.lo) % B29
                 hi == a.hi + sb.hi + (alo + sb.lo) \div B29
             IN  IF hi >= B27
                 THEN LET r == ShiftRS(hi, lo, 1) IN Round3(a.s, a.e + 1, r.hi, r.lo)
                 ELSE Round3(a.s, a.e, hi, lo)
        ELSE LET lo == IF alo < sb.lo THEN alo - sb.lo + B29 ELSE alo - sb.lo
                 hi == a.hi - sb.hi - (IF alo < sb.lo THEN 1 ELSE 0)
             IN  IF hi = 0 /\ lo = 0 THEN FZero
                 ELSE LET n == NormL(hi, lo, a.e) IN Round3(a.s, n.e, n.hi, n.lo)

MagGE(a, b) == a.e > b.e \/ (a.e = b.e /\ GE(a.hi, a.lo, b.hi, b.lo))

FAdd(a, b) ==
    IF IsNonFinite(a) \/ IsNonFinite(b) THEN NonFinite
    ELSE IF IsZero(a) THEN b
    ELSE IF IsZero(b) THEN a
    ELSE IF MagGE(a, b) THEN AddOrdered(a, b) ELSE AddOrdered(b, a)

FSub(a, b) == FAdd(a, FNeg(b))

-----------------------------------------------------------------------------
(* App: the poster model *)

\* the Arabic label and text literals are abbreviated to ASCII names
INITIAL_STATE ==
    [backgroundImage |-> NULL,
     elements |->
       [date |-> [id |-> "date", label |-> "label-date", text |-> "text-date",
                  x |-> FromInt(400), y |-> FromInt(120), fontSize |-> 48,
                  fontFamily |-> "Cairo", color |-> "#004d40"],
        honorific |-> [id |-> "honorific", label |-> "label-honorific",
                  text |-> "text-honorific",
                  x |-> FromInt(550), y |-> FromInt(220), fontSize |-> 36,
                  fontFamily |-> "Amiri", color |-> "#004d40"],
        name |-> [id |-> "name", label |-> "label-name", text |-> "text-name",
                  x |-> FromInt(400), y |-> FromInt(270), fontSize |-> 60,
                  fontFamily |-> "Amiri", color |-> "#1a1a1a"],
        title |-> [id |-> "title", label |-> "label-title", text |-> "text-title",
                  x |-> FromInt(165), y |-> FromInt(400), fontSize |-> 72,
                  fontFamily |-> "Lalezar", color |-> "#b71c1c", width |-> 950]]]

FONTS == {"Cairo", "Amiri", "Aref Ruqaa", "Lalezar", "Tajawal"}

COLORS == {"#000000", "#1a1a1a", "#ffffff", "#b71c1c", "#c62828", "#8B1E1E",
           "#004d40", "#00695c", "#00796b", "#1e3a8a", "#1e40af", "#3730a3"}

\* object spread { ...a, ...b }: the keys of both, b's value where both have one
Spread(a, b) == [k \in DOMAIN a \cup DOMAIN b |-> IF k \in DOMAIN b THEN b[k] ELSE a[k]]

\* { [id]: v }
Prop(id, v) == [k \in {id} |-> v]

\* mutant of updateElement: the other elements are not copied
updateElementAlone(prev, id, updates) ==
    Spread(prev, [elements |-> Prop(id, Spread(prev.elements[id], updates))])

\* the state update updateElement hands to setData, applied to prev
updateElement(prev, id, updates) ==
    Spread(prev, [elements |->
        Spread(prev.elements, Prop(id, Spread(prev.elements[id], updates)))])

\* mutant of handlePositionUpdate: the position is written to every element
handlePositionUpdateAll(prev, id, x, y) ==
    Spread(prev, [elements |->
        [k \in DOMAIN prev.elements |-> Spread(prev.elements[k], [x |-> x, y |-> y])]])

handlePositionUpdate(prev, id, x, y) == updateElement(prev, id, [x |-> x, y |-> y])

\* defined while selectedId is an element key (null otherwise)
selectedElement == data.elements[selectedId]

-----------------------------------------------------------------------------
(* PosterCanvas: the drag controller *)

LOGICAL_WIDTH == 1280

\* mutant of Scale: the scale taken from the rendered height
ScaleFromHeight(rect) == FDiv(FromInt(rect.height), FromInt(720))

\* rect.width / 1280
Scale(rect) == FDiv(FromInt(rect.width), FromInt(LOGICAL_WIDTH))

\* (e.clientX - dragOffset.x) / scale; client coordinates are integers here, and
\* the difference of two integers is exact in binary64
Delta(client, offset, scale) == FDiv(FromInt(client - offset), scale)

\* mutant of EffectListener: the effect runs once, with an empty dependency list
EffectOnce(captured, before, after) == captured

\* the useEffect with dependency [isDragging]: handleGlobalUp is registered anew,
\* capturing the new flag, when the flag differs from the previous render's
EffectListener(captured, before, after) == IF before # after THEN after ELSE captured

NoGesture == [id |-> NULL, prev |-> NULL, x0 |-> FZero, y0 |-> FZero,
              p0 |-> <<0, 0>>, p |-> <<0, 0>>, width |-> 0, n |-> 0, uniform |-> TRUE]

Event(op, id, p, n) == [op |-> op, id |-> id, p |-> p, n |-> n, active |-> isDragging]

\* mutant of DownTarget: a drag in progress keeps its element
DownTargetKeepsDrag(elementId) == IF isDragging THEN draggedId ELSE elementId

\* setDraggedId(elementId)
DownTarget(elementId) == elementId

\* mutant of MoveAnchor: the anchor stays where the pointer went down
MoveAnchorKept(p) == dragOffset

\* setDragOffset({ x: e.clientX, y: e.clientY }) at the end of handlePointerMove
MoveAnchor(p) == p

handlePointerDown(elementId, p) ==
    /\ UNCHANGED enhanceFrom
    /\ events < MaxEvents
    /\ selectedId' = elementId
    /\ draggedId' = DownTarget(elementId)
    /\ isDragging' = TRUE
    /\ dragOffset' = p
    /\ upListener' = EffectListener(upListener, isDragging, TRUE)
    /\ events' = events + 1
    /\ ev' = Event("pointerdown", elementId, p, 0)
    /\ requests' = <<>>
    /\ alerted' = FALSE
    /\ gesture' = [id |-> elementId, prev |-> draggedId,
                   x0 |-> data.elements[elementId].x, y0 |-> data.elements[elementId].y,
                   p0 |-> p, p |-> p, width |-> 0, n |-> 0, uniform |-> TRUE]
    /\ UNCHANGED <<data, loading, aiLoading, posterRef, containerRef, downloads, aiCalls>>

\* mutant of moveIgnored: the anchor follows the pointer before the guard returns
moveIgnoredTracking(p) ==
    /\ requests' = <<>>
    /\ dragOffset' = p
    /\ UNCHANGED <<data, gesture>>

\* the early return of handlePointerMove
moveIgnored(p) ==
    /\ requests' = <<>>
    /\ UNCHANGED <<data, dragOffset, gesture>>

handlePointerMove(p, rect) ==
    /\ UNCHANGED enhanceFrom
    /\ events < MaxEvents
    /\ events' = events + 1
    /\ ev' = Event("pointermove", draggedId, p, 0)
    /\ alerted' = FALSE
    /\ IF ~isDragging \/ draggedId = NULL \/ containerRef = NULL
       THEN moveIgnored(p)
       ELSE LET scale == Scale(rect)
                deltaX == Delta(p[1], dragOffset[1], scale)
                deltaY == Delta(p[2], dragOffset[2], scale)
                currentEl == data.elements[draggedId]
            IN  \* onUpdatePosition(draggedId, currentEl.x + deltaX, currentEl.y + deltaY)
                /\ requests' = <<[id |-> draggedId, x |-> FAdd(currentEl.x, deltaX),
                                                    y |-> FAdd(currentEl.y, deltaY)]>>
                /\ data' = handlePositionUpdate(data, requests'[1].id, requests'[1].x,
                                                requests'[1].y)
                /\ dragOffset' = MoveAnchor(p)
                /\ gesture' = [gesture EXCEPT !.p = p, !.n = @ + 1,
                                  !.width = IF gesture.n = 0 THEN rect.width ELSE @,
                                  !.uniform = @ /\ (gesture.n = 0 \/ gesture.width = rect.width)]
    /\ UNCHANGED <<selectedId, loading, aiLoading, posterRef, isDragging, draggedId,
                   containerRef, upListener, downloads, aiCalls>>

\* a pointerup anywhere in the document reaches the window listener; the
\* component attaches no pointerup handler of its own to the elements
handleGlobalUp(onElement, p) ==
    /\ UNCHANGED enhanceFrom
    /\ events < MaxEvents
    /\ events' = events + 1
    /\ ev' = Event("pointerup", IF onElement THEN draggedId ELSE NULL, p, 0)
    /\ requests' = <<>>
    /\ alerted' = FALSE
    /\ IF upListener
       THEN /\ isDragging' = FALSE
            /\ draggedId' = NULL
            /\ upListener' = EffectListener(upListener, isDragging, FALSE)
       ELSE UNCHANGED <<isDragging, draggedId, upListener>>
    /\ UNCHANGED <<data, selectedId, loading, aiLoading, posterRef, dragOffset,
                   containerRef, downloads, aiCalls, gesture>>

-----------------------------------------------------------------------------
(* App: selection, property edits, background *)

Quiet == requests' = <<>> /\ alerted' = FALSE

Canvas == <<isDragging, dragOffset, draggedId, containerRef, upListener, gesture>>

\* a layer button of the sidebar: onClick={() => setSelectedId(el.id)}
selectLayer(id) ==
    /\ UNCHANGED enhanceFrom
    /\ events < MaxEvents
    /\ events' = events + 1
    /\ ev' = Event("select", id, <<0, 0>>, 0)
    /\ selectedId' = id
    /\ Quiet
    /\ UNCHANGED <<data, loading, aiLoading, posterRef, downloads, aiCalls>>
    /\ UNCHANGED Canvas

\* what the four property controls hand to updateElement
PropertyEdits ==
    {[text |-> t] : t \in TextChoices} \cup {[fontFamily |-> f] : f \in FontChoices}
    \cup {[fontSize |-> n] : n \in SizeChoices} \cup {[color |-> c] : c \in ColorChoices}

\* the properties editor is rendered only while an element is selected
editProperty(updates) ==
    /\ UNCHANGED enhanceFrom
    /\ events < MaxEvents
    /\ selectedId # NULL
    /\ events' = events + 1
    /\ ev' = Event("edit", selectedId, <<0, 0>>, 0)
    /\ data' = updateElement(data, selectedElement.id, updates)
    /\ Quiet
    /\ UNCHANGED <<selectedId, loading, aiLoading, posterRef, downloads, aiCalls>>
    /\ UNCHANGED Canvas

\* reader.onload of handleImageUpload
handleImageUpload(result) ==
    /\ UNCHANGED enhanceFrom
    /\ events < MaxEvents
    /\ events' = events + 1
    /\ ev' = Event("upload", NULL, <<0, 0>>, 0)
    /\ data' = Spread(data, [backgroundImage |-> result])
    /\ Quiet
    /\ UNCHANGED <<selectedId, loading, aiLoading, posterRef, downloads, aiCalls>>
    /\ UNCHANGED Canvas

\* the remove-background button, rendered while a background is set
removeBackground ==
    /\ UNCHANGED enhanceFrom
    /\ events < MaxEvents
    /\ data.backgroundImage # NULL
    /\ events' = events + 1
    /\ ev' = Event("removeBackground", NULL, <<0, 0>>, 0)
    /\ data' = Spread(data, [backgroundImage |-> NULL])
    /\ Quiet
    /\ UNCHANGED <<selectedId, loading, aiLoading, posterRef, downloads, aiCalls>>
    /\ UNCHANGED Canvas

-----------------------------------------------------------------------------
(* App: text enhancement *)

\* the click on the enhancement button (disabled={aiLoading}), up to the await
handleAiEnhancement ==
    /\ events < MaxEvents
    /\ ~aiLoading
    /\ events' = events + 1
    /\ ev' = Event("enhance", NULL, <<0, 0>>, 0)
    /\ IF data.elements.date.text = "" /\ data.elements.title.text = ""
       THEN UNCHANGED <<aiLoading, aiCalls, enhanceFrom>>
       ELSE /\ aiLoading' = TRUE
            /\ aiCalls' = aiCalls + 1
            /\ enhanceFrom' = data
    /\ Quiet
    /\ UNCHANGED <<data, selectedId, loading, posterRef, downloads>>
    /\ UNCHANGED Canvas

\* a || b on strings
OrElse(a, b) == IF a # "" THEN a ELSE b

\* mutant of EnhanceBase: the update starts from the data the handler was rendered with
EnhanceBaseAtRequest == enhanceFrom

\* prev of the functional update setData(prev => ...)
EnhanceBase == data

\* enhancePosterContent resolved: the setData update, then finally
enhanceResolved(result) ==
    /\ UNCHANGED enhanceFrom
    /\ aiCalls > 0
    /\ aiCalls' = aiCalls - 1
    /\ ev' = Event("enhanceResolved", NULL, <<0, 0>>, 0)
    /\ data' = Spread(EnhanceBase, [elements |-> Spread(EnhanceBase.elements,
           [date |-> Spread(EnhanceBase.elements.date,
                [text |-> OrElse(result.formattedDate, EnhanceBase.elements.date.text)]),
            title |-> Spread(EnhanceBase.elements.title,
                [text |-> OrElse(result.enhancedTitle, EnhanceBase.elements.title.text)])])])
    /\ aiLoading' = FALSE
    /\ Quiet
    /\ UNCHANGED <<selectedId, loading, posterRef, downloads, events>>
    /\ UNCHANGED Canvas

\* enhancePosterContent rejected: try without catch, only finally runs
enhanceRejected ==
    /\ UNCHANGED enhanceFrom
    /\ aiCalls > 0
    /\ aiCalls' = aiCalls - 1
    /\ ev' = Event("enhanceRejected", NULL, <<0, 0>>, 0)
    /\ aiLoading' = FALSE
    /\ Quiet
    /\ UNCHANGED <<data, selectedId, loading, posterRef, downloads, events>>
    /\ UNCHANGED Canvas

-----------------------------------------------------------------------------
(* App: image export *)

Stage(i, st) == [downloads EXCEPT ![i].stage = st]

\* the click on the download button (disabled={loading}), up to setTimeout
handleDownload ==
    /\ UNCHANGED enhanceFrom
    /\ events < MaxEvents
    /\ ~loading
    /\ events' = events + 1
    /\ ev' = Event("download", NULL, <<0, 0>>, Len(downloads) + 1)
    /\ downloads' = Append(downloads, [stage |-> "timer", currentSelection |-> selectedId])
    /\ selectedId' = NULL
    /\ Quiet
    /\ UNCHANGED <<data, loading, aiLoading, posterRef, aiCalls>>
    /\ UNCHANGED Canvas

\* the 100 ms timers run in the order they were set
NextTimer(i) ==
    /\ i \in DOMAIN downloads
    /\ downloads[i].stage = "timer"
    /\ \A j \in 1..(i - 1) : downloads[j].stage # "timer"

\* the setTimeout callback, up to the await of toPng
timerFired(i) ==
    /\ UNCHANGED enhanceFrom
    /\ NextTimer(i)
    /\ ev' = Event("timer", NULL, <<0, 0>>, i)
    /\ IF posterRef = NULL
       THEN /\ downloads' = Stage(i, "returned")
            /\ UNCHANGED loading
       ELSE /\ loading' = TRUE
            /\ downloads' = Stage(i, "toPng")
    /\ Quiet
    /\ UNCHANGED <<data, selectedId, aiLoading, posterRef, aiCalls, events>>
    /\ UNCHANGED Canvas

\* mutant of Finally: the selection is not restored
FinallyKeepsSelection(i) ==
    /\ loading' = FALSE
    /\ UNCHANGED selectedId
    /\ downloads' = Stage(i, "done")

\* finally { setLoading(false); setSelectedId(currentSelection) }
Finally(i) ==
    /\ loading' = FALSE
    /\ selectedId' = downloads[i].currentSelection
    /\ downloads' = Stage(i, "done")

\* toPng resolved: the link is clicked, then finally
toPngResolved(i) ==
    /\ UNCHANGED enhanceFrom
    /\ i \in DOMAIN downloads
    /\ downloads[i].stage = "toPng"
    /\ ev' = Event("toPngResolved", NULL, <<0, 0>>, i)
    /\ Finally(i)
    /\ Quiet
    /\ UNCHANGED <<data, aiLoading, posterRef, aiCalls, events>>
    /\ UNCHANGED Canvas

\* toPng rejected: catch logs and alerts, then finally
toPngRejected(i) ==
    /\ UNCHANGED enhanceFrom
    /\ i \in DOMAIN downloads
    /\ downloads[i].stage = "toPng"
    /\ ev' = Event("toPngRejected", NULL, <<0, 0>>, i)
    /\ alerted' = TRUE
    /\ requests' = <<>>
    /\ Finally(i)
    /\ UNCHANGED <<data, aiLoading, posterRef, aiCalls, events>>
    /\ UNCHANGED Canvas

-----------------------------------------------------------------------------
ElementKeys == DOMAIN INITIAL_STATE.elements

Init ==
    /\ data = INITIAL_STATE
    /\ selectedId = "title"
    /\ loading = FALSE
    /\ aiLoading = FALSE
    /\ posterRef = "div"
    /\ isDragging = FALSE
    /\ dragOffset = <<0, 0>>
    /\ draggedId = NULL
    /\ containerRef = "div"
    /\ upListener = FALSE
    /\ downloads = <<>>
    /\ aiCalls = 0
    /\ events = 0
    /\ ev = [op |-> "init", id |-> NULL, p |-> <<0, 0>>, n |-> 0, active |-> FALSE]
    /\ requests = <<>>
    /\ alerted = FALSE
    /\ gesture = NoGesture
    /\ enhanceFrom = INITIAL_STATE

Next ==
    \/ \E id \in ElementKeys, p \in Pointers : handlePointerDown(id, p)
    \/ \E p \in Pointers, rect \in Rects : handlePointerMove(p, rect)
    \/ \E onElement \in BOOLEAN, p \in Pointers : handleGlobalUp(onElement, p)
    \/ \E id \in ElementKeys : selectLayer(id)
    \/ \E updates \in PropertyEdits : editProperty(updates)
    \/ \E result \in ImageChoices : handleImageUpload(result)
    \/ removeBackground
    \/ handleAiEnhancement
    \/ \E result \in AiResults : enhanceResolved(result)
    \/ enhanceRejected
    \/ handleDownload
    \/ \E i \in 1..MaxEvents : timerFired(i)
    \/ \E i \in 1..MaxEvents : toPngResolved(i)
    \/ \E i \in 1..MaxEvents : toPngRejected(i)

Spec == Init /\ [][Next]_vars

\* the event loop runs every timer that is due, and toPng settles
SpecLive ==
    /\ Spec
    /\ \A i \in 1..MaxEvents : WF_vars(timerFired(i))
    /\ \A i \in 1..MaxEvents : WF_vars(toPngResolved(i) \/ toPngRejected(i))

-----------------------------------------------------------------------------
(* Properties *)

\* the position a single move from the anchor of the gesture to its last
\* pointer position would request, at the width of the gesture
OneMove(start, from, to) ==
    FAdd(start, FDiv(FromInt(to - from), FDiv(FromInt(gesture.width), FromInt(1280))))

\* |a - b| < 2^-40
Close(a, b) ==
    LET d == FSub(a, b)
    IN  ~IsNonFinite(d) /\ (IsZero(d) \/ d.e + 53 <= 0 - 40)

Dragged == data.elements[gesture.id]

\* C1: a pointer move during a drag requests, for the dragged element only, the
\* position (x + (px - ax) / (w / 1280), y + (py - ay) / (w / 1280)) where (x, y)
\* is the element's current position, (ax, ay) the anchor and w the rendered
\* width; the height plays no part.  From (400, 120), anchor (100, 100), pointer
\* (110, 115): (410, 135) at w = 1280 and (420, 150) at w = 640.
C1_MoveFormula ==
    /\ [][\A p \in Pointers, rect \in Rects :
            (handlePointerMove(p, rect) /\ isDragging /\ draggedId # NULL
                                        /\ containerRef # NULL)
            => requests' = <<[id |-> draggedId,
                  x |-> FAdd(data.elements[draggedId].x,
                             FDiv(FromInt(p[1] - dragOffset[1]),
                                  FDiv(FromInt(rect.width), FromInt(1280)))),
                  y |-> FAdd(data.elements[draggedId].y,
                             FDiv(FromInt(p[2] - dragOffset[2]),
                                  FDiv(FromInt(rect.width), FromInt(1280))))]>>]_vars
    /\ []((/\ ev.op = "pointermove" /\ ev.active
           /\ gesture.n = 1
           /\ gesture.x0 = FromInt(400) /\ gesture.y0 = FromInt(120)
           /\ gesture.p0 = <<100, 100>> /\ gesture.p = <<110, 115>>)
          => /\ gesture.width = 1280
                => requests = <<[id |-> gesture.id, x |-> FromInt(410), y |-> FromInt(135)]>>
             /\ gesture.width = 640
                => requests = <<[id |-> gesture.id, x |-> FromInt(420), y |-> FromInt(150)]>>)

\* a first move of the worked example on a canvas rendered 640 wide and 720 high
C1_Witness ==
    /\ ev.op = "pointermove" /\ ev.active
    /\ gesture.n = 1 /\ gesture.id = "date"
    /\ gesture.p0 = <<100, 100>> /\ gesture.p = <<110, 115>>
    /\ gesture.width = 640
    /\ dragOffset = <<110, 115>>
    /\ Dragged.x = FromInt(420) /\ Dragged.y = FromInt(150)
    /\ requests # <<>>

\* C2 as stated: after any number of moves at one width the dragged element is
\* exactly where a single move from the first anchor to the last pointer
\* position would have put it
C2_ExactlyOneMove ==
    (gesture.n >= 1 /\ gesture.uniform)
    => /\ Dragged.x = OneMove(gesture.x0, gesture.p0[1], gesture.p[1])
       /\ Dragged.y = OneMove(gesture.y0, gesture.p0[2], gesture.p[2])

\* C2, amended: after any number of moves at one width the dragged element is
\* where a single move from the first anchor to the last pointer position would
\* have put it, up to the rounding of the binary64 operations (here 2^-40)
C2_OneMoveWithinTolerance ==
    (gesture.n >= 1 /\ gesture.uniform)
    => /\ Close(Dragged.x, OneMove(gesture.x0, gesture.p0[1], gesture.p[1]))
       /\ Close(Dragged.y, OneMove(gesture.y0, gesture.p0[2], gesture.p[2]))

\* two moves at one width whose result differs from the single move's by rounding
C2_Witness ==
    /\ gesture.n >= 2 /\ gesture.uniform
    /\ gesture.p # gesture.p0
    /\ Dragged.y # OneMove(gesture.y0, gesture.p0[2], gesture.p[2])
    /\ Close(Dragged.y, OneMove(gesture.y0, gesture.p0[2], gesture.p[2]))

\* C3: a pointer down on an element makes it the selected and the dragged
\* element, starts the drag and anchors it at the pointer, whatever was dragged
\* before; every position request of the moves that follow names that element
C3_DownTakesOver ==
    /\ ev.op = "pointerdown"
       => /\ selectedId = ev.id /\ draggedId = ev.id
          /\ isDragging /\ dragOffset = ev.p
          /\ gesture.id = ev.id
    /\ \A i \in DOMAIN requests : requests[i].id = gesture.id
    /\ isDragging => draggedId = gesture.id

\* a move after a pointer down on a second element while the first was dragged
C3_Witness ==
    /\ ev.op = "pointermove" /\ requests # <<>>
    /\ gesture.prev # NULL /\ gesture.prev # gesture.id
    /\ requests[1].id = gesture.id

\* C4: a pointer up anywhere in the document during a drag ends it: nothing is
\* being dragged afterwards
C4_UpEndsDrag ==
    (ev.op = "pointerup" /\ ev.active) => (~isDragging /\ draggedId = NULL)

\* a release away from every element, after the element was moved
C4_Witness ==
    /\ ev.op = "pointerup" /\ ev.active /\ ev.id = NULL
    /\ gesture.n >= 1
    /\ ~isDragging

\* C5: a pointer move with no drag in progress, no known dragged element or no
\* canvas reference requests nothing and leaves the document and the drag state
\* alone; requests come from moves during a drag only
C5_IdleMoveIgnored ==
    /\ [][(ev'.op = "pointermove" /\ events' = events + 1
           /\ (~isDragging \/ draggedId \notin DOMAIN data.elements \/ containerRef = NULL))
          => /\ requests' = <<>>
             /\ UNCHANGED <<data, dragOffset, isDragging, draggedId, selectedId>>]_vars
    /\ [](requests # <<>> => (ev.op = "pointermove" /\ ev.active))

\* a move to another place after a drag has ended: the anchor stays
C5_Witness ==
    /\ ev.op = "pointermove" /\ ~ev.active
    /\ gesture.id # NULL /\ ~isDragging
    /\ ev.p # dragOffset
    /\ requests = <<>>

InFlight == {i \in DOMAIN downloads : downloads[i].stage \in {"timer", "toPng"}}

\* C6 as stated: at most one export and at most one enhancement is in flight,
\* and the flag of an operation whose collaborator is running is set
C6_SingleInFlight ==
    /\ Cardinality(InFlight) <= 1
    /\ aiCalls <= 1
    /\ aiCalls = 1 => aiLoading
    /\ (\E i \in DOMAIN downloads : downloads[i].stage = "toPng") => loading

\* C7: the document always has exactly the four elements it started with, each
\* under its own key
C7_KeysFixed ==
    /\ DOMAIN data.elements = ElementKeys
    /\ \A k \in ElementKeys : data.elements[k].id = k
    /\ Cardinality(ElementKeys) = 4

\* an element edited and another position changed by a drag
C7_Witness ==
    /\ ev.op = "pointermove" /\ requests # <<>>
    /\ data.elements.title.text = "edited"
    /\ Dragged.x # gesture.x0

\* C8: a step of a drag (pointer down, move, up) changes nothing of the document
\* but the x and y of the dragged element
C8_DragFrame ==
    [][ev'.op \in {"pointerdown", "pointermove", "pointerup"} /\ events' = events + 1
       => /\ data'.backgroundImage = data.backgroundImage
          /\ DOMAIN data' = DOMAIN data
          /\ DOMAIN data'.elements = DOMAIN data.elements
          /\ \A k \in DOMAIN data.elements :
                LET old == data.elements[k]
                    new == data'.elements[k]
                IN  /\ DOMAIN new = DOMAIN old
                    /\ \A f \in DOMAIN old \ {"x", "y"} : new[f] = old[f]
                    /\ (k # draggedId \/ ~isDragging \/ ev'.op # "pointermove")
                       => new = old]_vars

\* a drag moved an element whose text had been edited
C8_Witness ==
    /\ ev.op = "pointermove" /\ requests # <<>>
    /\ Dragged.text = "edited"
    /\ Dragged.y # gesture.y0

\* C9 as stated: when a collaborator fails the user is notified, the busy flag
\* of the operation is cleared and the drag state is as it was
C9_FailureNotified ==
    [][(ev'.op \in {"toPngRejected", "enhanceRejected"} /\ events' = events)
       => /\ alerted'
          /\ ev'.op = "toPngRejected" => ~loading'
          /\ ev'.op = "enhanceRejected" => ~aiLoading'
          /\ UNCHANGED <<isDragging, draggedId, dragOffset>>]_vars

Finished(i) ==
    /\ i \in DOMAIN downloads
    /\ downloads[i].stage = "done"
    /\ ev.op \in {"toPngResolved", "toPngRejected"} /\ ev.n = i
    /\ ~loading
    /\ selectedId = downloads[i].currentSelection

\* C10: the click on download clears the selection before anything is rendered,
\* and every export started eventually finishes, by success or failure, with
\* the loading flag off and the selection it captured restored
C10_ExportFinishes ==
    /\ [](ev.op = "download" => (selectedId = NULL /\ downloads[ev.n].stage = "timer"))
    /\ \A i \in 1..MaxEvents :
          (i \in DOMAIN downloads /\ downloads[i].stage = "timer") ~> Finished(i)

\* an export finished and restored a selection while the pointer was dragging
C10_Witness ==
    \E i \in DOMAIN downloads :
        /\ Finished(i)
        /\ downloads[i].currentSelection # NULL
        /\ isDragging

\* C11: applying an enhancement result changes nothing but the text of date and
\* title, a field whose result is empty keeping its current text; every other
\* field of every element, the background and the drag are as they were just
\* before the result arrived, whatever they were when the request was made
C11_EnhancementOnCurrent ==
    [][\A result \in AiResults :
          enhanceResolved(result)
          => /\ data'.backgroundImage = data.backgroundImage
             /\ DOMAIN data' = DOMAIN data
             /\ DOMAIN data'.elements = DOMAIN data.elements
             /\ \A k \in DOMAIN data.elements :
                   LET old == data.elements[k]
                       new == data'.elements[k]
                   IN  /\ DOMAIN new = DOMAIN old
                       /\ \A f \in DOMAIN old \ {"text"} : new[f] = old[f]
                       /\ k \notin {"date", "title"} => new = old
             /\ data'.elements.date.text =
                   IF result.formattedDate = "" THEN data.elements.date.text
                   ELSE result.formattedDate
             /\ data'.elements.title.text =
                   IF result.enhancedTitle = "" THEN data.elements.title.text
                   ELSE result.enhancedTitle
             /\ UNCHANGED <<selectedId, isDragging, draggedId, dragOffset>>]_vars

\* a result with a title and no date arrived during a drag that had moved an
\* element since the request was made
C11_Witness ==
    /\ ev.op = "enhanceResolved"
    /\ isDragging /\ gesture.n >= 1
    /\ Dragged.x # enhanceFrom.elements[gesture.id].x
    /\ data.elements.title.text = "ai-title"
    /\ data.elements.title.text # enhanceFrom.elements.title.text
    /\ data.elements.date.text = enhanceFrom.elements.date.text

====
